---- MODULE Spec2Model ----
(***************************************************************************)
(* A model of gohome's device streaming loop (device.go), its command      *)
(* translator (parseCommandString / buildCommand), the recipe listeners    *)
(* (Recipe.StartConsumingEvents) and the system's device table (system.go).*)
(*                                                                         *)
(* Wire text is a sequence of one-byte characters; "CR" and "LF" stand for *)
(* \r and \n.  Intensities are counted in hundredths (5500 is 55.00).      *)
(***************************************************************************)
EXTENDS Integers, Sequences, FiniteSets, TLC

VARIABLES
    \* ---- Device (device.go) and System (system.go)
    inSystem,       \* the device is in System.Devices
    streamCfg,      \* d.ConnectionInfo.Stream
    evpGen,         \* number of StartProducingEvents calls (channels made)
    streamPc,       \* per startStreaming worker: its position
    buf,            \* per worker: bytes the scanner holds, not yet consumed
    ev,             \* per worker: the Event it is sending on d.evpFire
    acquired,       \* connections Connect handed out
    released,       \* connections passed to ReleaseConnection
    crashed,        \* a panic ended the process
    lastW,          \* the worker whose latest step handled a token, or 0
    lastTok,        \* that token (scanner.Text())
    lastRes,        \* what parseCommandString returned for it
    sawUnresolved,  \* per worker: this cycle skipped an unresolved reference
    script,         \* the bytes the peer writes on a connection it accepts
    wire,           \* per worker: bytes of the script it has not read yet
    retried,        \* per worker: it is at the Connect that follows a failure
    \* ---- Device.Authenticate
    authPc,         \* the step Authenticate is at
    authInfo,       \* c.Info(): Login and Password
    authIn,         \* bytes the peer has written that were not read yet
    authBuf,        \* bytes the bufio.Reader holds
    authOut,        \* what c.Write has written, in order
    authLog,        \* the I/O steps that completed without error, in order
    \* ---- Recipe
    enabled,        \* r.enabled
    started,        \* StartConsumingEvents was called
    hasFire,        \* Trigger.Init returned a fire channel
    tpe,            \* triggerProcessesEvents
    evPc,           \* the event listener's position
    firePc,         \* the async-fire listener's position
    fireVal,        \* f, the value last received from fire
    doneNil,        \* the fire listener set done = nil
    sinkClosed,     \* the caller closed c
    doneClosed,     \* close(done) ran
    triggerDoneClosed, \* close(triggerDone) ran
    evRecvEnabled,  \* r.enabled when the current event was received
    evSawEnabled,   \* r.enabled as read at line 95 for the current event
    fireRecvEnabled,\* r.enabled when the current fire signal was received
    fireSawEnabled, \* r.enabled as read at line 78 for the current signal
    everDisabled,   \* SetEnabled(false) was called on the started recipe
    evErr,          \* the event listener's latest Action.Execute returned an error
    fireErr,        \* the fire listener's latest Action.Execute returned an error
    sending,        \* the caller is blocked in a send on c
    \* ---- Translator (pure functions applied to drawn inputs)
    trPc,           \* "idle", "rendered", "received", "parsed"
    trIntent,       \* the commandBuilderParams rendered, if any
    trText,         \* the wire text under translation
    trRes,          \* parseCommandString's result for trText
    \* ---- System.Devices and System.IsDupeDevice
    devices,        \* s.Devices: the registered devices by ID
    dupePc,         \* "idle", or "returned" once IsDupeDevice has returned
    dupeX,          \* the device IsDupeDevice was called with
    dupeRes         \* what it returned: a device's ID (or NoDevice) and a flag

devVars == <<inSystem, streamCfg, evpGen, streamPc, buf, ev, acquired, released,
             crashed, lastW, lastTok, lastRes, sawUnresolved>>
recVars == <<enabled, started, hasFire, tpe, evPc, firePc, fireVal, doneNil,
             sinkClosed, doneClosed, triggerDoneClosed, evRecvEnabled,
             evSawEnabled, fireRecvEnabled, fireSawEnabled, everDisabled,
             evErr, fireErr, sending>>
trVars == <<trPc, trIntent, trText, trRes>>
scanVars == <<script, wire, retried>>
authVars == <<authPc, authInfo, authIn, authBuf, authOut, authLog>>
dupeVars == <<devices, dupePc, dupeX, dupeRes>>
vars == <<devVars, recVars, trVars, scanVars, authVars, dupeVars>>

----------------------------------------------------------------------------
\* Bounds of the model

\* StartProducingEvents calls on the device
MaxStarts == 2
\* successful Connect calls
MaxAcquire == 2
\* bytes the scanner buffers while no frame is complete
MaxBuf == 60
\* devices registered in the system
MaxDevices == 2

----------------------------------------------------------------------------
\* Text

CR == "CR"
LF == "LF"
CRLF == <<CR, LF>>
OUTPUT == <<"O", "U", "T", "P", "U", "T">>
DEVICE == <<"D", "E", "V", "I", "C", "E">>
DigitChars == <<"0", "1", "2", "3", "4", "5", "6", "7", "8", "9">>
DigitSet == {DigitChars[i] : i \in 1..10}

DigitVal(c) == (CHOOSE i \in 1..10 : DigitChars[i] = c) - 1

\* strings.HasPrefix
HasPrefix(s, p) == Len(s) >= Len(p) /\ SubSeq(s, 1, Len(p)) = p

\* index of the first x in s at or after from, 0 when there is none
IndexFrom(s, x, from) ==
    IF \E i \in from..Len(s) : s[i] = x
    THEN CHOOSE i \in from..Len(s) :
            s[i] = x /\ \A j \in from..(i - 1) : s[j] # x
    ELSE 0

\* %d of a natural number
RECURSIVE FormatNat(_)
FormatNat(n) ==
    IF n < 10 THEN <<DigitChars[n + 1]>>
    ELSE FormatNat(n \div 10) \o <<DigitChars[(n % 10) + 1]>>

\* %.2f of a non-negative value given in hundredths
FormatFixed2(h) ==
    FormatNat(h \div 100) \o <<".">>
        \o <<DigitChars[((h \div 10) % 10) + 1], DigitChars[(h % 10) + 1]>>

RECURSIVE DigitsVal(_)
DigitsVal(s) ==
    IF s = <<>> THEN 0
    ELSE 10 * DigitsVal(SubSeq(s, 1, Len(s) - 1)) + DigitVal(s[Len(s)])

\* strconv.ParseFloat on decimal notation: [sign] digits [. digits], with at
\* most two fraction digits (the value is kept in hundredths).  Any other
\* text of the model's alphabet is a syntax error.
ParseFloat(t) ==
    LET signed == t # <<>> /\ t[1] \in {"+", "-"}
        body == IF signed THEN SubSeq(t, 2, Len(t)) ELSE t
        dot == IndexFrom(body, ".", 1)
        ip == IF dot = 0 THEN body ELSE SubSeq(body, 1, dot - 1)
        fp == IF dot = 0 THEN <<>> ELSE SubSeq(body, dot + 1, Len(body))
        wellFormed ==
            /\ \A i \in 1..Len(ip) : ip[i] \in DigitSet
            /\ \A i \in 1..Len(fp) : fp[i] \in DigitSet
            /\ Len(ip) + Len(fp) > 0
            /\ Len(fp) <= 2
        frac == IF Len(fp) = 0 THEN 0
                ELSE IF Len(fp) = 1 THEN 10 * DigitVal(fp[1])
                ELSE 10 * DigitVal(fp[1]) + DigitVal(fp[2])
        mag == 100 * DigitsVal(ip) + frac
    IN  IF wellFormed
        THEN [ok |-> TRUE,
              val |-> IF signed /\ t[1] = "-" THEN 0 - mag ELSE mag]
        ELSE [ok |-> FALSE, val |-> 0]

----------------------------------------------------------------------------
\* The streaming device's tables

\* d.Zones: local ids of the device's zones
ZoneTable == {<<"1", "2">>, <<"5">>}
\* d.Devices: local ids of the child devices
DeviceTable == {<<"9">>, <<"2">>}
\* Device.Name of a child device
DeviceName(id) == IF id = <<"9">> THEN <<"K", "P">> ELSE <<"P", "I", "C", "O">>
\* Device.Buttons of a child device
ButtonTable(id) == IF id = <<"9">> THEN {<<"3">>, <<"4">>} ELSE {<<"1">>}

\* pointers: nil, *Zone, *Button, and the LocalID fields read through them
NilRef == <<>>
ZoneRef(z) == <<"zone", z>>
ButtonRef(d, b) == <<"button", d, b>>
ZoneLocalID(ref) == ref[2]
ButtonLocalID(ref) == ref[3]

----------------------------------------------------------------------------
\* Commands

CTUnknown == "CTUnknown"
CTZoneSetLevel == "CTZoneSetLevel"
CTDevicePressButton == "CTDevicePressButton"
CTDeviceReleaseButton == "CTDeviceReleaseButton"

NilCmd == [Type |-> "nil", Value |-> <<>>, Friendly |-> <<>>]
\* a result of parseCommandString: (Command, source), or a panic
Result(c, s) == [cmd |-> c, source |-> s, panic |-> FALSE]
Dropped == Result(NilCmd, NilRef)
Panic == [cmd |-> NilCmd, source |-> NilRef, panic |-> TRUE]

\* the wire text of a zone command
ZoneValue(zone, intensity) ==
    <<"#">> \o OUTPUT \o <<",">> \o zone \o <<",", "1", ",">>
        \o FormatFixed2(intensity) \o CRLF

\* the wire text of a button command, code "3" or "4"
ButtonValue(sourceDevice, button, code) ==
    <<"#">> \o DEVICE \o <<",">> \o DeviceName(sourceDevice) \o <<",">>
        \o button \o <<",", code>> \o CRLF

\* buildCommand.  p.Zone, p.SourceDevice and p.Button are NilRef for a nil
\* pointer; reading a field through a nil pointer panics.
buildCommand(p) ==
    CASE p.CommandType = CTZoneSetLevel ->
            IF p.Zone = NilRef THEN Panic
            ELSE Result([Type |-> CTZoneSetLevel,
                         Value |-> ZoneValue(ZoneLocalID(p.Zone), p.Intensity),
                         Friendly |-> <<"Zone", ZoneLocalID(p.Zone),
                                        FormatFixed2(p.Intensity)>>],
                        NilRef)
      [] p.CommandType = CTDevicePressButton ->
            IF p.SourceDevice = NilRef \/ p.Button = NilRef THEN Panic
            ELSE Result([Type |-> CTDevicePressButton,
                         Value |-> ButtonValue(p.SourceDevice,
                                      ButtonLocalID(p.Button), "3"),
                         Friendly |-> <<"Device", p.SourceDevice, "press",
                                        ButtonLocalID(p.Button)>>],
                        NilRef)
      [] p.CommandType = CTDeviceReleaseButton ->
            IF p.SourceDevice = NilRef \/ p.Button = NilRef THEN Panic
            ELSE Result([Type |-> CTDeviceReleaseButton,
                         Value |-> ButtonValue(p.SourceDevice,
                                      ButtonLocalID(p.Button), "4"),
                         Friendly |-> <<"Device", p.SourceDevice, "release",
                                        ButtonLocalID(p.Button)>>],
                        NilRef)
      [] OTHER -> Dropped

Params(ct, zone, intensity, sourceDevice, button) ==
    [CommandType |-> ct, Zone |-> zone, Intensity |-> intensity,
     SourceDevice |-> sourceDevice, Button |-> button]

----------------------------------------------------------------------------
\* Regular expressions of device.go

\* the matches of KEYWORD,([^,]+),([^,]+),(.+)\r\n that start at s[i] with a
\* character of the class sent: the three groups, or <<>> when s[i..] has no
\* match.  [^,]+ runs to the next comma; .+ cannot cross a line feed.
MatchAt(s, i, sent, keyword) ==
    LET k == Len(keyword)
        c1 == IndexFrom(s, ",", i + k + 2)
        c2 == IF c1 = 0 THEN 0 ELSE IndexFrom(s, ",", c1 + 1)
        nl == IF c2 = 0 THEN 0 ELSE IndexFrom(s, LF, c2 + 1)
    IN  IF /\ i + k + 1 <= Len(s)
           /\ s[i] \in sent
           /\ SubSeq(s, i + 1, i + k) = keyword
           /\ s[i + k + 1] = ","
           /\ c1 > i + k + 2
           /\ c2 > c1 + 1
           /\ nl >= c2 + 3
           /\ s[nl - 1] = CR
        THEN <<SubSeq(s, i + k + 2, c1 - 1), SubSeq(s, c1 + 1, c2 - 1),
               SubSeq(s, c2 + 1, nl - 2)>>
        ELSE <<>>

\* regexp.FindStringSubmatch: the groups of the leftmost match, <<>> for nil
FindSubmatch(s, sent, keyword) ==
    IF \E i \in 1..Len(s) : MatchAt(s, i, sent, keyword) # <<>>
    THEN MatchAt(s,
                 CHOOSE i \in 1..Len(s) :
                    /\ MatchAt(s, i, sent, keyword) # <<>>
                    /\ \A j \in 1..(i - 1) : MatchAt(s, j, sent, keyword) = <<>>,
                 sent, keyword)
    ELSE <<>>

\* the character class that opens parseZoneCommand's expression
ZoneSentinels == {"~", "|", "?"}
\* the character class that opens parseDeviceCommand's expression
DeviceSentinels == {"~", "|", "#"}

\* the switch on cmdID in parseZoneCommand
ZoneCommandTypeMutant(cmdID) == CTZoneSetLevel
ZoneCommandType(cmdID) == IF cmdID = <<"1">> THEN CTZoneSetLevel ELSE CTUnknown

\* the switch on cmdID in parseDeviceCommand
DeviceCommandTypeMutant(cmdID) ==
    CASE cmdID = <<"3">> -> CTDeviceReleaseButton
      [] cmdID = <<"4">> -> CTDevicePressButton
      [] OTHER -> CTUnknown
DeviceCommandType(cmdID) ==
    CASE cmdID = <<"3">> -> CTDevicePressButton
      [] cmdID = <<"4">> -> CTDeviceReleaseButton
      [] OTHER -> CTUnknown

\* sourceDevice == nil after d.Devices[deviceID]
SourceDeviceMissingMutant(deviceID) == FALSE
SourceDeviceMissing(deviceID) == deviceID \notin DeviceTable

\* z == nil after d.Zones[zoneID]
ZoneMissing(zoneID) == zoneID \notin ZoneTable

parseDeviceCommand(cmd) ==
    LET matches == FindSubmatch(cmd, DeviceSentinels, DEVICE)
    IN  IF matches = <<>> THEN Dropped
        ELSE LET deviceID == matches[1]
                 componentID == matches[2]
                 cmdID == matches[3]
                 ct == DeviceCommandType(cmdID)
                 btn == IF ct = CTUnknown THEN NilRef
                        ELSE IF componentID \in ButtonTable(deviceID)
                             THEN ButtonRef(deviceID, componentID)
                             ELSE NilRef
                 built == buildCommand(Params(ct, NilRef, 0,
                                  IF deviceID \in DeviceTable THEN deviceID
                                  ELSE NilRef, btn))
             IN  IF SourceDeviceMissing(deviceID) THEN Dropped
                 \* sourceDevice.Buttons through a nil sourceDevice
                 ELSE IF deviceID \notin DeviceTable /\ ct # CTUnknown
                      THEN Panic
                 ELSE IF built.panic THEN Panic
                 ELSE Result(built.cmd, btn)

parseZoneCommand(cmd) ==
    LET matches == FindSubmatch(cmd, ZoneSentinels, OUTPUT)
    IN  IF matches = <<>> THEN Dropped
        ELSE LET zoneID == matches[1]
                 cmdID == matches[2]
                 intensity == ParseFloat(matches[3])
                 built == buildCommand(Params(ZoneCommandType(cmdID),
                                  IF zoneID \in ZoneTable
                                  THEN ZoneRef(zoneID) ELSE NilRef,
                                  intensity.val, NilRef, NilRef))
             IN  IF ~intensity.ok THEN Dropped
                 ELSE IF ZoneMissing(zoneID) THEN Dropped
                 ELSE IF built.panic THEN Panic
                 ELSE Result(built.cmd, ZoneRef(zoneID))

parseCommandString(cmd) ==
    IF HasPrefix(cmd, <<"~">> \o OUTPUT) \/ HasPrefix(cmd, <<"#">> \o OUTPUT)
    THEN parseZoneCommand(cmd)
    ELSE IF HasPrefix(cmd, <<"~">> \o DEVICE) \/ HasPrefix(cmd, <<"#">> \o DEVICE)
    THEN parseDeviceCommand(cmd)
    ELSE Dropped

----------------------------------------------------------------------------
\* Wire text the model draws from

OutputFrame(sent, zone, op, text) ==
    <<sent>> \o OUTPUT \o <<",">> \o zone \o <<",">> \o op \o <<",">> \o text
        \o CRLF

DeviceFrame(sent, device, button, code) ==
    <<sent>> \o DEVICE \o <<",">> \o device \o <<",">> \o button \o <<",">>
        \o code \o CRLF

\* intensities 0..100, in hundredths
Intensities == {0, 1, 50, 5500, 9999, 10000}
WireSentinels == {"#", "~"}
WireZones == ZoneTable \cup {<<"1", "3">>}
WireDevices == DeviceTable \cup {<<"8">>}
WireButtons == {<<"1">>, <<"3">>, <<"4">>, <<"7">>}
WireOps == {<<"1">>, <<"2">>}
WireCodes == {<<"3">>, <<"4">>, <<"5">>}
WireIntensities == {FormatFixed2(i) : i \in Intensities} \cup {<<"x">>}

WireFrames ==
    {OutputFrame(s, z, o, t) :
        s \in WireSentinels, z \in WireZones, o \in WireOps,
        t \in WireIntensities}
    \cup {DeviceFrame(s, d, b, c) :
        s \in WireSentinels, d \in WireDevices, b \in WireButtons,
        c \in WireCodes}

\* the intents buildCommand renders
Intents ==
    {Params(CTZoneSetLevel, ZoneRef(z), i, NilRef, NilRef) :
        z \in ZoneTable, i \in Intensities}
    \cup UNION {{Params(ct, NilRef, 0, d, ButtonRef(d, b)) :
                    ct \in {CTDevicePressButton, CTDeviceReleaseButton},
                    b \in ButtonTable(d)} : d \in DeviceTable}

\* what one read of the streaming connection delivers
StreamFrames ==
    {OutputFrame("#", <<"1", "2">>, <<"1">>, FormatFixed2(5500)),
     OutputFrame("~", <<"1", "2">>, <<"1">>, FormatFixed2(5500)),
     OutputFrame("~", <<"1", "3">>, <<"1">>, FormatFixed2(5500)),
     OutputFrame("#", <<"1", "3">>, <<"1">>, FormatFixed2(5500)),
     DeviceFrame("#", <<"8">>, <<"3">>, <<"3">>),
     DeviceFrame("#", <<"9">>, <<"7">>, <<"3">>)}
    \cup UNION {{DeviceFrame("#", d, b, c) :
                    b \in ButtonTable(d), c \in {<<"3">>, <<"4">>}} :
                d \in DeviceTable}

StreamChunks ==
    StreamFrames
    \cup {DeviceFrame("#", <<"8">>, <<"3">>, <<"3">>)
            \o DeviceFrame("#", <<"9">>, <<"3">>, <<"3">>)}

\* byte streams a peer writes on one connection
EAcute == <<"C3", "A9">>
ZoneFrame == OutputFrame("~", <<"1", "2">>, <<"1">>, FormatFixed2(5500))
HashZoneFrame == OutputFrame("#", <<"1", "2">>, <<"1">>, FormatFixed2(5500))
PressFrame == DeviceFrame("#", <<"9">>, <<"3">>, <<"3">>)
ReleaseFrame == DeviceFrame("#", <<"9">>, <<"3">>, <<"4">>)
AccentFrame == OutputFrame("~", EAcute, <<"1">>, FormatFixed2(5500))
PingLine == <<"#", "P", "I", "N", "G">> \o CRLF
Prompt == <<"G", "N", "E", "T", ">", " ">>

\* one complete frame
FrameScripts ==
    {ZoneFrame, HashZoneFrame, PressFrame, ReleaseFrame, AccentFrame,
     DeviceFrame("~", <<"2">>, <<"1">>, <<"4">>),
     DeviceFrame("#", <<"8">>, <<"3">>, <<"3">>)}

\* several complete frames
MultiFrameScripts ==
    {ZoneFrame \o PressFrame,
     PressFrame \o ReleaseFrame \o ZoneFrame,
     PressFrame \o PressFrame}

\* bytes that form no frame: garbage, a line with another keyword, fragments
\* of frames without their terminator
NoFrameScripts ==
    {<<"x", "y", "z">>,
     Prompt,
     CRLF,
     PingLine,
     PingLine \o PingLine,
     SubSeq(ZoneFrame, 1, Len(ZoneFrame) - 2),
     SubSeq(PressFrame, 1, Len(PressFrame) - 1),
     <<"~", "O", "x">> \o CRLF}

\* unrecognized bytes without a CRLF in front of a frame
Garbage ==
    {<<"x", "y", "z">>, Prompt, <<"3", "CR">>, <<"~", "O", "x">>, EAcute}
PrefixedScripts == {g \o f : g \in Garbage, f \in {PressFrame, ZoneFrame}}

\* frames for a zone or a child device of the streaming device with an opCode
\* other than 1, respectively an action code other than 3 and 4
UnknownOpFrames ==
    {OutputFrame("~", <<"1", "2">>, <<"2">>, FormatFixed2(5500)),
     OutputFrame("#", <<"5">>, <<"2">>, FormatFixed2(5500)),
     OutputFrame("~", <<"5">>, <<"1", "1">>, FormatFixed2(0)),
     DeviceFrame("#", <<"9">>, <<"3">>, <<"5">>),
     DeviceFrame("~", <<"2">>, <<"7">>, <<"3", "4">>)}

\* such a frame alone, and with a frame behind it
UnknownOpScripts ==
    UnknownOpFrames \cup {u \o PressFrame : u \in UnknownOpFrames}

Scripts ==
    FrameScripts \cup MultiFrameScripts \cup NoFrameScripts
        \cup PrefixedScripts \cup {PingLine \o PressFrame}
        \cup UnknownOpScripts

----------------------------------------------------------------------------
\* The streaming loop: StartProducingEvents, startStreaming, stream

Workers == 1..MaxStarts

\* the first characters the scanner's split function looks for
SplitSentinels == {"~", "|", "#"}
SplitSecond == {"O", "U", "T", "P", "|", "D", "E", "V", "I", "C"}

\* where [~|#][OUTPUT|DEVICE].+\r\n matches from s[i]: the index of the line
\* feed that ends the match, 0 when there is no match from s[i]
SplitEndAt(s, i) ==
    LET nl == IndexFrom(s, LF, i + 2)
    IN  IF /\ i + 1 <= Len(s)
           /\ s[i] \in SplitSentinels
           /\ s[i + 1] \in SplitSecond
           /\ nl >= i + 4
           /\ s[nl - 1] = CR
        THEN nl ELSE 0

\* the split function: FindStringIndex's leftmost match as [from, to], the
\* token being data[from..to] and advance being to; from = 0 asks for more
Split(data) ==
    IF \E i \in 1..Len(data) : SplitEndAt(data, i) # 0
    THEN LET i == CHOOSE k \in 1..Len(data) :
                    /\ SplitEndAt(data, k) # 0
                    /\ \A j \in 1..(k - 1) : SplitEndAt(data, j) = 0
         IN  [from |-> i, to |-> SplitEndAt(data, i)]
    ELSE [from |-> 0, to |-> 0]

\* the runes of a string, each written as the bytes that encode it.  The
\* model's one character outside ASCII is e-acute, the bytes C3 A9; a byte of
\* it that stands alone decodes to the replacement character.
RuneError == <<"EF", "BF", "BD">>
RuneZero == <<"NUL">>
RECURSIVE Decode(_)
Decode(s) ==
    IF s = <<>> THEN <<>>
    ELSE IF Len(s) >= 2 /\ s[1] = "C3" /\ s[2] = "A9"
    THEN <<SubSeq(s, 1, 2)>> \o Decode(SubSeq(s, 3, Len(s)))
    ELSE IF s[1] \in {"C3", "A9"}
    THEN <<RuneError>> \o Decode(Tail(s))
    ELSE <<SubSeq(s, 1, 1)>> \o Decode(Tail(s))

\* []rune(s): of ASCII text, one rune for each byte
Runes(s) ==
    IF \A i \in 1..Len(s) : s[i] \notin {"C3", "A9"}
    THEN [i \in 1..Len(s) |-> <<s[i]>>]
    ELSE Decode(s)

\* string(runes)
RECURSIVE Encode(_)
Encode(rs) ==
    IF rs = <<>> THEN <<>>
    ELSE IF \A i \in 1..Len(rs) : Len(rs[i]) = 1
    THEN [i \in 1..Len(rs) |-> rs[i][1]]
    ELSE Head(rs) \o Encode(Tail(rs))

\* token = []byte(string([]rune(str)[indices[0]:indices[1]])), rs being
\* []rune(str): the byte indices of the match are used on the slice of runes.
\* An index past the slice's length is within its capacity or not, as the
\* allocation has it (roomy): the slice expression then reads the zero runes
\* behind the string, or panics.
Token(rs, m, roomy) ==
    IF m.to > Len(rs) /\ ~roomy
    THEN [panic |-> TRUE, tok |-> <<>>]
    ELSE [panic |-> FALSE,
          tok |-> Encode([k \in 1..(m.to - m.from + 1) |->
                    IF m.from + k - 1 <= Len(rs)
                    THEN rs[m.from + k - 1] ELSE RuneZero])]

\* the capacities the rune slice can have, as far as the slice expression
\* can tell them apart
Capacities(rs, m) == IF m.to > Len(rs) THEN BOOLEAN ELSE {TRUE}

\* advance = indices[1]: the bytes the scanner drops from its buffer
AdvanceMutant(m) == m.to - 1
Advance(m) == m.to

\* cmd != nil: the scan loop sends an Event
HasCommandMutant(cmd) == TRUE
HasCommand(cmd) == cmd # NilCmd

\* NewEvent(d, cmd, orig, ETUnknown, source)
NewEvent(cmd, orig, source) ==
    [Cmd |-> cmd, Orig |-> orig, Type |-> "ETUnknown", Source |-> source]
NoEvent == NewEvent(NilCmd, <<>>, NilRef)

\* an inbound frame of the wire grammar that names a zone or a child device
\* the streaming device does not have
IsUnresolved(tok) ==
    LET z == FindSubmatch(tok, WireSentinels, OUTPUT)
        d == FindSubmatch(tok, WireSentinels, DEVICE)
    IN  \/ z # <<>> /\ z[1] \notin ZoneTable
        \/ d # <<>> /\ d[1] \notin DeviceTable

\* the record of the last token is dropped once its worker has moved on
MovedOn(w) ==
    IF lastW = w
    THEN lastW' = 0 /\ lastTok' = <<>> /\ lastRes' = Dropped
    ELSE UNCHANGED <<lastW, lastTok, lastRes>>

\* the deferred d.ReleaseConnection(conn) of stream
DeferredReleaseMutant(n) == n
DeferredRelease(n) == n + 1

DevInit ==
    /\ inSystem = TRUE
    /\ streamCfg \in BOOLEAN
    /\ evpGen = 0
    /\ streamPc = [w \in Workers |-> "idle"]
    /\ buf = [w \in Workers |-> <<>>]
    /\ ev = [w \in Workers |-> NoEvent]
    /\ acquired = 0
    /\ released = 0
    /\ crashed = FALSE
    /\ lastW = 0
    /\ lastTok = <<>>
    /\ lastRes = Dropped
    /\ sawUnresolved = [w \in Workers |-> FALSE]
    /\ script = <<>>
    /\ wire = [w \in Workers |-> <<>>]
    /\ retried = [w \in Workers |-> FALSE]

\* Device.StartProducingEvents: new channels, and a new startStreaming
\* goroutine when the device is configured to stream
StartProducingEvents ==
    /\ ~crashed
    /\ evpGen < MaxStarts
    /\ evpGen' = evpGen + 1
    /\ streamPc' = IF streamCfg
                   THEN [streamPc EXCEPT ![evpGen + 1] = "connect"]
                   ELSE streamPc
    /\ UNCHANGED <<inSystem, streamCfg, buf, ev, acquired, released, crashed,
                   lastW, lastTok, lastRes, sawUnresolved>>
    /\ UNCHANGED <<recVars, trVars, scanVars, authVars, dupeVars>>

\* stream: d.Connect() returns a connection
ConnectOk(w) ==
    /\ ~crashed
    /\ streamPc[w] = "connect"
    /\ acquired < MaxAcquire
    /\ acquired' = acquired + 1
    /\ streamPc' = [streamPc EXCEPT ![w] = "scan"]
    /\ buf' = [buf EXCEPT ![w] = <<>>]
    /\ wire' = [wire EXCEPT ![w] = script]
    /\ retried' = [retried EXCEPT ![w] = FALSE]
    /\ UNCHANGED <<inSystem, streamCfg, evpGen, ev, released, crashed, lastW,
                   lastTok, lastRes, sawUnresolved>>
    /\ UNCHANGED script
    /\ UNCHANGED <<recVars, trVars, authVars, dupeVars>>

\* stream: d.Connect() fails (the pool has no connection); stream returns the
\* error before its defer, startStreaming logs it and sleeps
ConnectFail(w) ==
    /\ ~crashed
    /\ streamPc[w] = "connect"
    /\ streamPc' = [streamPc EXCEPT ![w] = "sleepConnectErr"]
    /\ retried' = [retried EXCEPT ![w] = FALSE]
    /\ UNCHANGED <<inSystem, streamCfg, evpGen, buf, ev, acquired, released,
                   crashed, lastW, lastTok, lastRes, sawUnresolved>>
    /\ UNCHANGED <<script, wire>>
    /\ UNCHANGED <<recVars, trVars, authVars, dupeVars>>

\* the body of the scan loop for the token t the split function made, or
\* its panic: parseCommandString, then the send on d.evpFire when it
\* returned a command.  A panic runs the deferred release and ends the
\* process.  The scanner keeps rest.
HandleToken(w, t, rest) ==
    \E res \in {IF t.panic THEN Panic ELSE parseCommandString(t.tok)} :
        /\ lastW' = w
        /\ lastTok' = t.tok
        /\ lastRes' = res
        /\ buf' = [buf EXCEPT ![w] = rest]
        /\ IF res.panic
           THEN /\ crashed' = TRUE
                /\ released' = DeferredRelease(released)
                /\ streamPc' = [streamPc EXCEPT ![w] = "panic"]
                /\ UNCHANGED <<ev, sawUnresolved>>
           ELSE IF ~HasCommand(res.cmd)
           THEN /\ sawUnresolved' =
                        [sawUnresolved EXCEPT ![w] = @ \/ IsUnresolved(t.tok)]
                /\ UNCHANGED <<crashed, released, streamPc, ev>>
           ELSE /\ ev' = [ev EXCEPT
                            ![w] = NewEvent(res.cmd, t.tok, res.source)]
                /\ streamPc' = [streamPc EXCEPT ![w] = "send"]
                /\ UNCHANGED <<crashed, released, sawUnresolved>>
        /\ UNCHANGED <<inSystem, streamCfg, evpGen, acquired>>
        /\ UNCHANGED <<script, retried>>
        /\ UNCHANGED <<recVars, trVars, authVars, dupeVars>>

\* the scanner applies the split function to data, the bytes it holds: on a
\* match the token goes to the loop body, otherwise it keeps the bytes (up
\* to MaxBuf of them) for the next read
SplitAndHandle(w, data) ==
    \E m \in {Split(data)} :
        IF m.from # 0
        THEN \E rs \in {Runes(data)} :
                \E roomy \in Capacities(rs, m) :
                    \E t \in {Token(rs, m, roomy)} :
                        \E rest \in {SubSeq(data, Advance(m) + 1,
                                            Len(data))} :
                            HandleToken(w, t, rest)
        ELSE /\ Len(data) <= MaxBuf
             /\ buf' = [buf EXCEPT ![w] = data]
             /\ MovedOn(w)
             /\ UNCHANGED <<inSystem, streamCfg, evpGen, streamPc, ev,
                            acquired, released, crashed, sawUnresolved>>
             /\ UNCHANGED <<script, retried>>
             /\ UNCHANGED <<recVars, trVars, authVars, dupeVars>>

\* scanner.Scan() with a complete frame already buffered
ScanBuffered(w) ==
    /\ ~crashed
    /\ streamPc[w] = "scan"
    /\ Split(buf[w]).from # 0
    /\ SplitAndHandle(w, buf[w])
    /\ UNCHANGED wire

\* scanner.Scan() with no complete frame buffered: it reads from the
\* connection a chunk the peer wrote in one piece, and applies the split
\* function to what it now holds
ScanRead(w) ==
    /\ ~crashed
    /\ streamPc[w] = "scan"
    /\ Split(buf[w]).from = 0
    /\ wire[w] = <<>>
    /\ \E chunk \in StreamChunks :
        \E data \in {buf[w] \o chunk} : SplitAndHandle(w, data)
    /\ UNCHANGED wire

\* scanner.Scan() with no complete frame buffered, its read returning the
\* first n of the bytes on the wire
ScanPartial(w) ==
    /\ ~crashed
    /\ streamPc[w] = "scan"
    /\ Split(buf[w]).from = 0
    /\ \E n \in 1..Len(wire[w]) :
        /\ wire' = [wire EXCEPT ![w] = SubSeq(wire[w], n + 1, Len(wire[w]))]
        /\ \E data \in {buf[w] \o SubSeq(wire[w], 1, n)} :
                SplitAndHandle(w, data)

\* scanner.Scan() returns false: end of stream once everything written was
\* read (readErr FALSE, stream returns nil) or a read error (stream returns
\* it); the deferred release runs, and startStreaming sleeps
ScanEnd(w, readErr) ==
    /\ ~crashed
    /\ streamPc[w] = "scan"
    /\ Split(buf[w]).from = 0
    /\ readErr \/ wire[w] = <<>>
    /\ released' = DeferredRelease(released)
    /\ streamPc' = [streamPc EXCEPT
                        ![w] = IF readErr THEN "sleepReadErr" ELSE "sleepEof"]
    /\ buf' = [buf EXCEPT ![w] = <<>>]
    /\ sawUnresolved' = [sawUnresolved EXCEPT ![w] = FALSE]
    /\ MovedOn(w)
    /\ wire' = [wire EXCEPT ![w] = <<>>]
    /\ UNCHANGED <<inSystem, streamCfg, evpGen, ev, acquired, crashed>>
    /\ UNCHANGED <<script, retried>>
    /\ UNCHANGED <<recVars, trVars, authVars, dupeVars>>

\* a consumer receives the Event the worker is sending on d.evpFire
Consume(w) ==
    /\ ~crashed
    /\ streamPc[w] = "send"
    /\ streamPc' = [streamPc EXCEPT ![w] = "scan"]
    /\ ev' = [ev EXCEPT ![w] = NoEvent]
    /\ MovedOn(w)
    /\ UNCHANGED <<inSystem, streamCfg, evpGen, buf, acquired, released,
                   crashed, sawUnresolved>>
    /\ UNCHANGED <<recVars, trVars, scanVars, authVars, dupeVars>>

Sleeping(w) == streamPc[w] \in {"sleepConnectErr", "sleepReadErr", "sleepEof"}

\* the error stream returned to startStreaming (nil at the end of the stream)
CycleFailed(w) == streamPc[w] \in {"sleepConnectErr", "sleepReadErr"}

\* startStreaming's for loop has no exit: whatever stream returned, it is
\* logged and the loop goes round again
LoopsAgainMutant(err) == ~err
LoopsAgain(err) == TRUE

\* startStreaming: time.Sleep returns and the loop calls stream again
Wake(w) ==
    /\ ~crashed
    /\ Sleeping(w)
    /\ streamPc' = [streamPc EXCEPT
                        ![w] = IF LoopsAgain(CycleFailed(w)) THEN "connect"
                               ELSE "returned"]
    /\ retried' = [retried EXCEPT ![w] = @ \/ CycleFailed(w)]
    /\ UNCHANGED <<inSystem, streamCfg, evpGen, buf, ev, acquired, released,
                   crashed, lastW, lastTok, lastRes, sawUnresolved>>
    /\ UNCHANGED <<script, wire>>
    /\ UNCHANGED <<recVars, trVars, authVars, dupeVars>>

\* System.DeleteDevice: delete(s.Devices, d.ID)
DeleteDevice ==
    /\ ~crashed
    /\ inSystem' = FALSE
    /\ UNCHANGED <<streamCfg, evpGen, streamPc, buf, ev, acquired, released,
                   crashed, lastW, lastTok, lastRes, sawUnresolved>>
    /\ UNCHANGED <<recVars, trVars, scanVars, authVars, dupeVars>>

----------------------------------------------------------------------------
\* Recipe: NewRecipe, SetEnabled, StartConsumingEvents and its two listeners

RecInit ==
    /\ enabled \in BOOLEAN
    /\ started = FALSE
    /\ hasFire = FALSE
    /\ tpe = FALSE
    /\ evPc = "none"
    /\ firePc = "none"
    /\ fireVal = FALSE
    /\ doneNil = FALSE
    /\ sinkClosed = FALSE
    /\ doneClosed = FALSE
    /\ triggerDoneClosed = FALSE
    /\ evRecvEnabled = FALSE
    /\ evSawEnabled = FALSE
    /\ fireRecvEnabled = FALSE
    /\ fireSawEnabled = FALSE
    /\ everDisabled = FALSE
    /\ evErr = FALSE
    /\ fireErr = FALSE
    /\ sending = FALSE

\* the event listener goes on to ProcessEvent: the negation of
\* !r.enabled || !triggerProcessesEvents
EventGateMutant(en, processes) == processes
EventGate(en, processes) == en /\ processes

\* the fire listener goes on to executeAction: if r.enabled { if f {
FireGateMutant(en, f) == en
FireGate(en, f) == en /\ f

\* the fire listener leaves its loop: if done == nil { break }
FireBreakMutant(isNil) == FALSE
FireBreak(isNil) == isNil

\* Recipe.SetEnabled
SetEnabled(b) ==
    /\ enabled' = b
    /\ everDisabled' = (everDisabled \/ (started /\ ~b))
    /\ UNCHANGED <<started, hasFire, tpe, evPc, firePc, fireVal, doneNil,
                   sinkClosed, doneClosed, triggerDoneClosed, evRecvEnabled,
                   evSawEnabled, fireRecvEnabled, fireSawEnabled, evErr,
                   fireErr, sending>>
    /\ UNCHANGED <<devVars, trVars, scanVars, authVars, dupeVars>>

\* Recipe.StartConsumingEvents: Trigger.Init returns a fire channel or nil
\* and triggerProcessesEvents; the listeners are launched
StartConsumingEvents(fire, processes) ==
    /\ ~started
    /\ started' = TRUE
    /\ hasFire' = fire
    /\ tpe' = processes
    /\ firePc' = IF fire THEN "select" ELSE "none"
    /\ evPc' = "recv"
    /\ UNCHANGED <<enabled, fireVal, doneNil, sinkClosed, doneClosed,
                   triggerDoneClosed, evRecvEnabled, evSawEnabled,
                   fireRecvEnabled, fireSawEnabled>>
    /\ UNCHANGED <<everDisabled, evErr, fireErr, sending>>
    /\ UNCHANGED <<devVars, trVars, scanVars, authVars, dupeVars>>

\* the caller starts a send of an Event on c, which is unbuffered: it blocks
\* until the event listener takes the Event
Send ==
    /\ started
    /\ ~sinkClosed
    /\ ~sending
    /\ sending' = TRUE
    /\ UNCHANGED <<enabled, started, hasFire, tpe, evPc, firePc, fireVal,
                   doneNil, sinkClosed, doneClosed, triggerDoneClosed,
                   evRecvEnabled, evSawEnabled, fireRecvEnabled,
                   fireSawEnabled>>
    /\ UNCHANGED <<everDisabled, evErr, fireErr>>
    /\ UNCHANGED <<devVars, trVars, scanVars, authVars, dupeVars>>

\* for e := range c: the event listener receives the Event the caller is
\* sending, which completes the send
EvReceive ==
    /\ evPc = "recv"
    /\ ~sinkClosed
    /\ sending
    /\ sending' = FALSE
    /\ evPc' = "check"
    /\ evRecvEnabled' = enabled
    /\ UNCHANGED <<enabled, started, hasFire, tpe, firePc, fireVal, doneNil,
                   sinkClosed, doneClosed, triggerDoneClosed, evSawEnabled,
                   fireRecvEnabled, fireSawEnabled>>
    /\ UNCHANGED <<everDisabled, evErr, fireErr>>
    /\ UNCHANGED <<devVars, trVars, scanVars, authVars, dupeVars>>

\* continue: the event listener goes back to its range over c
ContinueMutant == "closeDone"
Continue == "recv"

\* if !r.enabled || !triggerProcessesEvents { continue }
EvCheck ==
    /\ evPc = "check"
    /\ evSawEnabled' = enabled
    /\ evPc' = IF EventGate(enabled, tpe) THEN "process" ELSE Continue
    /\ UNCHANGED <<enabled, started, hasFire, tpe, firePc, fireVal, doneNil,
                   sinkClosed, doneClosed, triggerDoneClosed, evRecvEnabled,
                   fireRecvEnabled, fireSawEnabled>>
    /\ UNCHANGED <<everDisabled, evErr, fireErr, sending>>
    /\ UNCHANGED <<devVars, trVars, scanVars, authVars, dupeVars>>

\* r.Trigger.ProcessEvent(e) returns fired; on true executeAction is entered
EvProcessEvent(fired) ==
    /\ evPc = "process"
    /\ evPc' = IF fired THEN "exec" ELSE "recv"
    /\ UNCHANGED <<enabled, started, hasFire, tpe, firePc, fireVal, doneNil,
                   sinkClosed, doneClosed, triggerDoneClosed, evRecvEnabled,
                   evSawEnabled, fireRecvEnabled, fireSawEnabled>>
    /\ UNCHANGED <<everDisabled, evErr, fireErr, sending>>
    /\ UNCHANGED <<devVars, trVars, scanVars, authVars, dupeVars>>

\* executeAction: whatever err Action.Execute returned, it is logged and
\* executeAction returns to the listener that called it
ExecuteReturnsMutant(err) == ~err
ExecuteReturns(err) == TRUE

\* Action.Execute returns err and executeAction returns in the event listener,
\* which goes back to its range over c
EvExecuteDone(err) ==
    /\ evPc = "exec"
    /\ evPc' = IF ExecuteReturns(err) THEN "recv" ELSE "exited"
    /\ evErr' = err
    /\ UNCHANGED <<enabled, started, hasFire, tpe, firePc, fireVal, doneNil,
                   sinkClosed, doneClosed, triggerDoneClosed, evRecvEnabled,
                   evSawEnabled, fireRecvEnabled, fireSawEnabled>>
    /\ UNCHANGED <<everDisabled, fireErr, sending>>
    /\ UNCHANGED <<devVars, trVars, scanVars, authVars, dupeVars>>

\* the caller closes c, once its sends have completed
CloseSink ==
    /\ started
    /\ ~sinkClosed
    /\ ~sending
    /\ sinkClosed' = TRUE
    /\ UNCHANGED <<enabled, started, hasFire, tpe, evPc, firePc, fireVal,
                   doneNil, doneClosed, triggerDoneClosed, evRecvEnabled,
                   evSawEnabled, fireRecvEnabled, fireSawEnabled>>
    /\ UNCHANGED <<everDisabled, evErr, fireErr, sending>>
    /\ UNCHANGED <<devVars, trVars, scanVars, authVars, dupeVars>>

\* for e := range c ends on the closed channel
EvRangeEnd ==
    /\ evPc = "recv"
    /\ sinkClosed
    /\ evPc' = "closeDone"
    /\ UNCHANGED <<enabled, started, hasFire, tpe, firePc, fireVal, doneNil,
                   sinkClosed, doneClosed, triggerDoneClosed, evRecvEnabled,
                   evSawEnabled, fireRecvEnabled, fireSawEnabled>>
    /\ UNCHANGED <<everDisabled, evErr, fireErr, sending>>
    /\ UNCHANGED <<devVars, trVars, scanVars, authVars, dupeVars>>

\* close(done)
EvCloseDone ==
    /\ evPc = "closeDone"
    /\ doneClosed' = TRUE
    /\ evPc' = "closeTriggerDone"
    /\ UNCHANGED <<enabled, started, hasFire, tpe, firePc, fireVal, doneNil,
                   sinkClosed, triggerDoneClosed, evRecvEnabled, evSawEnabled,
                   fireRecvEnabled, fireSawEnabled>>
    /\ UNCHANGED <<everDisabled, evErr, fireErr, sending>>
    /\ UNCHANGED <<devVars, trVars, scanVars, authVars, dupeVars>>

\* close(triggerDone), and the event listener returns
EvCloseTriggerDone ==
    /\ evPc = "closeTriggerDone"
    /\ triggerDoneClosed' = TRUE
    /\ evPc' = "exited"
    /\ UNCHANGED <<enabled, started, hasFire, tpe, firePc, fireVal, doneNil,
                   sinkClosed, doneClosed, evRecvEnabled, evSawEnabled,
                   fireRecvEnabled, fireSawEnabled>>
    /\ UNCHANGED <<everDisabled, evErr, fireErr, sending>>
    /\ UNCHANGED <<devVars, trVars, scanVars, authVars, dupeVars>>

\* select: case _, ok := <-done with done closed: done = nil, then the break
FireRecvDone ==
    /\ firePc = "select"
    /\ ~doneNil
    /\ doneClosed
    /\ doneNil' = TRUE
    /\ firePc' = IF FireBreak(TRUE) THEN "exited" ELSE "select"
    /\ UNCHANGED <<enabled, started, hasFire, tpe, evPc, fireVal, sinkClosed,
                   doneClosed, triggerDoneClosed, evRecvEnabled, evSawEnabled,
                   fireRecvEnabled, fireSawEnabled>>
    /\ UNCHANGED <<everDisabled, evErr, fireErr, sending>>
    /\ UNCHANGED <<devVars, trVars, scanVars, authVars, dupeVars>>

\* select: case f := <-fire, the trigger sending f
FireRecvSignal(f) ==
    /\ firePc = "select"
    /\ fireVal' = f
    /\ fireRecvEnabled' = enabled
    /\ firePc' = "check"
    /\ UNCHANGED <<enabled, started, hasFire, tpe, evPc, doneNil, sinkClosed,
                   doneClosed, triggerDoneClosed, evRecvEnabled, evSawEnabled,
                   fireSawEnabled>>
    /\ UNCHANGED <<everDisabled, evErr, fireErr, sending>>
    /\ UNCHANGED <<devVars, trVars, scanVars, authVars, dupeVars>>

\* if r.enabled { if f { executeAction(r) } }, else back to the select
FireCheck ==
    /\ firePc = "check"
    /\ fireSawEnabled' = enabled
    /\ firePc' = IF FireGate(enabled, fireVal) THEN "exec"
                 ELSE IF FireBreak(doneNil) THEN "exited" ELSE "select"
    /\ UNCHANGED <<enabled, started, hasFire, tpe, evPc, fireVal, doneNil,
                   sinkClosed, doneClosed, triggerDoneClosed, evRecvEnabled,
                   evSawEnabled, fireRecvEnabled>>
    /\ UNCHANGED <<everDisabled, evErr, fireErr, sending>>
    /\ UNCHANGED <<devVars, trVars, scanVars, authVars, dupeVars>>

\* Action.Execute returns err and executeAction returns in the fire listener,
\* which goes on to if done == nil and its select
FireExecuteDone(err) ==
    /\ firePc = "exec"
    /\ firePc' = IF ExecuteReturns(err) /\ ~FireBreak(doneNil) THEN "select"
                 ELSE "exited"
    /\ fireErr' = err
    /\ UNCHANGED <<enabled, started, hasFire, tpe, evPc, fireVal, doneNil,
                   sinkClosed, doneClosed, triggerDoneClosed, evRecvEnabled,
                   evSawEnabled, fireRecvEnabled, fireSawEnabled>>
    /\ UNCHANGED <<everDisabled, evErr, sending>>
    /\ UNCHANGED <<devVars, trVars, scanVars, authVars, dupeVars>>

----------------------------------------------------------------------------
\* The translator applied to drawn inputs

NoIntent == Params(CTUnknown, NilRef, 0, NilRef, NilRef)

TrInit ==
    /\ trPc = "idle"
    /\ trIntent = NoIntent
    /\ trText = <<>>
    /\ trRes = Dropped

\* buildCommand renders an intent to its wire text
Render(p) ==
    /\ trPc = "idle"
    /\ trPc' = "rendered"
    /\ trIntent' = p
    /\ trText' = buildCommand(p).cmd.Value
    /\ UNCHANGED trRes
    /\ UNCHANGED <<devVars, recVars, scanVars, authVars, dupeVars>>

\* a frame arrives from the wire
Receive(frame) ==
    /\ trPc = "idle"
    /\ trPc' = "received"
    /\ trText' = frame
    /\ UNCHANGED <<trIntent, trRes>>
    /\ UNCHANGED <<devVars, recVars, scanVars, authVars, dupeVars>>

\* parseCommandString on the text
Translate ==
    /\ trPc \in {"rendered", "received"}
    /\ trPc' = "parsed"
    /\ trRes' = parseCommandString(trText)
    /\ UNCHANGED <<trIntent, trText>>
    /\ UNCHANGED <<devVars, recVars, scanVars, authVars, dupeVars>>

----------------------------------------------------------------------------
\* Device.Authenticate

Colon == ":"
\* what the peer writes once the connection is open
AuthPrompts ==
    {<<"l", "o", "g", "i", "n", ":", " ", "p", "w", ":", " ">>,
     <<"l", ":", "p", ":">>,
     <<"l", ":", " ">>,
     <<":", ":", ":">>,
     <<"l", "p">>}
\* c.Info()
AuthInfos ==
    {[Login |-> <<"l", "u">>, Password |-> <<"i", "n">>],
     [Login |-> <<"a">>, Password |-> <<>>]}

AuthInit ==
    /\ authPc = "idle"
    /\ authInfo \in AuthInfos
    /\ authIn \in AuthPrompts
    /\ authBuf = <<>>
    /\ authOut = <<>>
    /\ authLog = <<>>

AuthReading == authPc \in {"readLogin", "readPassword"}
AuthWriting == authPc \in {"writeLogin", "writePassword"}

\* the statement that follows a step which returned no error
AuthNext(pc) ==
    CASE pc = "readLogin" -> "writeLogin"
      [] pc = "writeLogin" -> "readPassword"
      [] pc = "readPassword" -> "writePassword"
      [] pc = "writePassword" -> "ok"
      [] OTHER -> pc

\* what the write at pc sends: info.Login + "\r\n", info.Password + "\r\n"
CredentialMutant(pc, info) ==
    (IF pc = "writeLogin" THEN info.Password ELSE info.Login) \o CRLF
Credential(pc, info) ==
    (IF pc = "writeLogin" THEN info.Login ELSE info.Password) \o CRLF

\* Authenticate is called: r := bufio.NewReader(c)
Authenticate ==
    /\ authPc = "idle"
    /\ authPc' = "readLogin"
    /\ UNCHANGED <<authInfo, authIn, authBuf, authOut, authLog>>
    /\ UNCHANGED <<devVars, recVars, trVars, scanVars, dupeVars>>

\* r.ReadString(':') finds no delimiter in the reader's buffer and reads
\* some more bytes from the connection
AuthFill ==
    /\ AuthReading
    /\ IndexFrom(authBuf, Colon, 1) = 0
    /\ \E n \in 1..Len(authIn) :
        /\ authBuf' = authBuf \o SubSeq(authIn, 1, n)
        /\ authIn' = SubSeq(authIn, n + 1, Len(authIn))
    /\ UNCHANGED <<authPc, authInfo, authOut, authLog>>
    /\ UNCHANGED <<devVars, recVars, trVars, scanVars, dupeVars>>

\* r.ReadString(':') returns the bytes up to and including the delimiter
AuthReadString ==
    /\ AuthReading
    /\ IndexFrom(authBuf, Colon, 1) # 0
    /\ authBuf' = SubSeq(authBuf, IndexFrom(authBuf, Colon, 1) + 1,
                         Len(authBuf))
    /\ authLog' = Append(authLog, authPc)
    /\ authPc' = AuthNext(authPc)
    /\ UNCHANGED <<authInfo, authIn, authOut>>
    /\ UNCHANGED <<devVars, recVars, trVars, scanVars, dupeVars>>

\* r.ReadString(':') returns an error: the connection ended or failed before
\* a delimiter came.  Authenticate returns the error.
AuthReadFail ==
    /\ AuthReading
    /\ IndexFrom(authBuf, Colon, 1) = 0
    /\ authPc' = "failed"
    /\ UNCHANGED <<authInfo, authIn, authBuf, authOut, authLog>>
    /\ UNCHANGED <<devVars, recVars, trVars, scanVars, dupeVars>>

\* c.Write of the credential and CRLF; on an error Authenticate returns it,
\* after the second write without one it returns nil
AuthWrite(ok) ==
    /\ AuthWriting
    /\ IF ok
       THEN /\ authOut' = Append(authOut, Credential(authPc, authInfo))
            /\ authLog' = Append(authLog, authPc)
            /\ authPc' = AuthNext(authPc)
       ELSE /\ authPc' = "failed"
            /\ UNCHANGED <<authOut, authLog>>
    /\ UNCHANGED <<authInfo, authIn, authBuf>>
    /\ UNCHANGED <<devVars, recVars, trVars, scanVars, dupeVars>>

----------------------------------------------------------------------------
\* System: AddDevice and IsDupeDevice

\* a nil *Device: x.Hub of a device without a hub, IsDupeDevice's nil result
NoHub == "none"
NoDevice == 0
DeviceIDs == 1..MaxDevices
Addresses == {"10.0.0.1", "10.0.0.2"}
HubIDs == {"hubA", "hubB"}
\* the Address and Hub of a device; Hub is the hub's ID
DeviceRecords == [Address : Addresses, Hub : HubIDs \cup {NoHub}]

DupeInit ==
    /\ devices = <<>>
    /\ dupePc = "idle"
    /\ dupeX = [Address |-> "10.0.0.1", Hub |-> NoHub]
    /\ dupeRes = [dev |-> NoDevice, dupe |-> FALSE]

\* System.AddDevice: s.Devices[d.ID] = d
AddDevice(id, d) ==
    /\ devices' = [i \in DOMAIN devices \cup {id} |->
                        IF i = id THEN d ELSE devices[i]]
    /\ dupePc' = "idle"
    /\ dupeX' = [Address |-> "10.0.0.1", Hub |-> NoHub]
    /\ dupeRes' = [dev |-> NoDevice, dupe |-> FALSE]
    /\ UNCHANGED <<devVars, recVars, trVars, scanVars, authVars>>

\* the orders in which a range over a map with the keys ids can yield them
Orders(ids) ==
    {o \in [1..Cardinality(ids) -> ids] :
        \A i, j \in 1..Cardinality(ids) : i # j => o[i] # o[j]}

\* the body of IsDupeDevice's if for a device y with x's address
SameAddress(x, id, y) ==
    LET xHasHub == x.Hub # NoHub
        yHasHub == y.Hub # NoHub
    IN  IF xHasHub # yHasHub THEN [dev |-> NoDevice, dupe |-> FALSE]
        ELSE IF ~xHasHub /\ ~yHasHub THEN [dev |-> id, dupe |-> TRUE]
        ELSE [dev |-> id, dupe |-> x.Hub = y.Hub]

\* if x.Address == y.Address
AddressMatches(x, y) == x.Address = y.Address

\* the loop of IsDupeDevice over the devices in the order the range yields
RECURSIVE RangeDevices(_, _, _)
RangeDevices(x, table, order) ==
    IF order = <<>> THEN [dev |-> NoDevice, dupe |-> FALSE]
    ELSE IF AddressMatches(x, table[Head(order)])
         THEN SameAddress(x, Head(order), table[Head(order)])
         ELSE RangeDevices(x, table, Tail(order))

\* System.IsDupeDevice(x), the range over s.Devices yielding some order
IsDupeDevice(x) ==
    /\ \E order \in Orders(DOMAIN devices) :
            dupeRes' = RangeDevices(x, devices, order)
    /\ dupeX' = x
    /\ dupePc' = "returned"
    /\ UNCHANGED devices
    /\ UNCHANGED <<devVars, recVars, trVars, scanVars, authVars>>

----------------------------------------------------------------------------
\* Specifications

\* the parts a specification leaves at rest
DevParked == DevInit /\ streamCfg = TRUE
RecParked == RecInit /\ enabled = TRUE
AuthParked ==
    /\ AuthInit
    /\ authInfo = [Login |-> <<"a">>, Password |-> <<>>]
    /\ authIn = <<"l", "p">>

Init == DevInit /\ RecParked /\ TrInit /\ AuthParked /\ DupeInit

Next ==
    \/ StartProducingEvents
    \/ DeleteDevice
    \/ \E w \in Workers : ConnectOk(w)
    \/ \E w \in Workers : ConnectFail(w)
    \/ \E w \in Workers : ScanBuffered(w)
    \/ \E w \in Workers : ScanRead(w)
    \/ \E w \in Workers : \E readErr \in BOOLEAN : ScanEnd(w, readErr)
    \/ \E w \in Workers : Consume(w)
    \/ \E w \in Workers : Wake(w)

\* the streaming loop and the device's removal
Spec == Init /\ [][Next]_vars

\* the goroutines of the streaming loop keep being scheduled: a sleep ends,
\* a call to Connect returns
StreamFairness ==
    \A w \in Workers :
        /\ WF_vars(Wake(w))
        /\ WF_vars(ConnectOk(w) \/ ConnectFail(w))

FairSpec == Spec /\ StreamFairness

RecipeInit == DevParked /\ RecInit /\ TrInit /\ AuthParked /\ DupeInit

RecipeNext ==
    \/ \E b \in BOOLEAN : SetEnabled(b)
    \/ \E fire \in BOOLEAN : \E processes \in BOOLEAN :
            StartConsumingEvents(fire, processes)
    \/ Send
    \/ EvReceive
    \/ EvCheck
    \/ \E fired \in BOOLEAN : EvProcessEvent(fired)
    \/ \E err \in BOOLEAN : EvExecuteDone(err)
    \/ CloseSink
    \/ EvRangeEnd
    \/ EvCloseDone
    \/ EvCloseTriggerDone
    \/ FireRecvDone
    \/ \E f \in BOOLEAN : FireRecvSignal(f)
    \/ FireCheck
    \/ \E err \in BOOLEAN : FireExecuteDone(err)

\* one recipe, its caller and its trigger
RecipeSpec == RecipeInit /\ [][RecipeNext]_vars

\* both listeners keep being scheduled, a blocked send and the listener's
\* receive meet, Trigger.ProcessEvent and Action.Execute return, and a select with the closed done channel ready
\* takes that case sooner or later (Go picks among ready cases at random)
RecipeFairness ==
    /\ WF_vars(EvReceive)
    /\ WF_vars(EvCheck)
    /\ WF_vars(\E fired \in BOOLEAN : EvProcessEvent(fired))
    /\ WF_vars(\E err \in BOOLEAN : EvExecuteDone(err))
    /\ WF_vars(EvRangeEnd)
    /\ WF_vars(EvCloseDone)
    /\ WF_vars(EvCloseTriggerDone)
    /\ WF_vars(FireCheck)
    /\ WF_vars(\E err \in BOOLEAN : FireExecuteDone(err))
    /\ SF_vars(FireRecvDone)

RecipeFairSpec == RecipeSpec /\ RecipeFairness

TranslatorInit ==
    DevParked /\ RecParked /\ TrInit /\ AuthParked /\ DupeInit

TranslatorNext ==
    \/ \E p \in Intents : Render(p)
    \/ \E frame \in WireFrames : Receive(frame)
    \/ Translate

\* parseCommandString and buildCommand on every drawn frame and intent
TranslatorSpec == TranslatorInit /\ [][TranslatorNext]_vars

\* one streaming loop, started by one call of StartProducingEvents, whose
\* peer writes the script on the connection
ScanInit ==
    /\ inSystem = TRUE
    /\ streamCfg = TRUE
    /\ evpGen = 1
    /\ streamPc = [w \in Workers |-> IF w = 1 THEN "connect" ELSE "idle"]
    /\ buf = [w \in Workers |-> <<>>]
    /\ ev = [w \in Workers |-> NoEvent]
    /\ acquired = 0
    /\ released = 0
    /\ crashed = FALSE
    /\ lastW = 0
    /\ lastTok = <<>>
    /\ lastRes = Dropped
    /\ sawUnresolved = [w \in Workers |-> FALSE]
    /\ script \in Scripts
    /\ wire = [w \in Workers |-> <<>>]
    /\ retried = [w \in Workers |-> FALSE]
    /\ RecParked
    /\ TrInit
    /\ AuthParked
    /\ DupeInit

ScanNext ==
    \/ \E w \in Workers : ConnectOk(w)
    \/ \E w \in Workers : ScanBuffered(w)
    \/ \E w \in Workers : ScanPartial(w)
    \/ \E w \in Workers : \E readErr \in BOOLEAN : ScanEnd(w, readErr)
    \/ \E w \in Workers : Consume(w)

\* the scanner of one streaming cycle fed a byte stream in reads of any size
ScanSpec == ScanInit /\ [][ScanNext]_vars

LoopNext ==
    \/ ScanNext
    \/ \E w \in Workers : ConnectFail(w)
    \/ \E w \in Workers : Wake(w)

\* one streaming loop through its cycles, each connection delivering the
\* script, with the loop's goroutine kept scheduled
LoopFairSpec == ScanInit /\ [][LoopNext]_vars /\ StreamFairness

AuthSpecInit == DevParked /\ RecParked /\ TrInit /\ AuthInit /\ DupeInit

AuthSpecNext ==
    \/ Authenticate
    \/ AuthFill
    \/ AuthReadString
    \/ AuthReadFail
    \/ \E ok \in BOOLEAN : AuthWrite(ok)

\* one call of Authenticate on a fresh connection
AuthSpec == AuthSpecInit /\ [][AuthSpecNext]_vars

DupeSpecInit == DevParked /\ RecParked /\ TrInit /\ AuthParked /\ DupeInit

DupeNext ==
    \/ \E id \in DeviceIDs : \E d \in DeviceRecords : AddDevice(id, d)
    \/ \E x \in DeviceRecords : IsDupeDevice(x)

\* the system's device table and the duplicate check on it
DupeSpec == DupeSpecInit /\ [][DupeNext]_vars


----------------------------------------------------------------------------
\* Properties

\* C1: no execution of the recipe's action begins while another execution of
\* the same recipe's action is in progress: the two listeners are never both
\* inside executeAction.
C1_SerializedExecution == ~(evPc = "exec" /\ firePc = "exec")

ListenersGone ==
    /\ evPc = "exited"
    /\ doneClosed
    /\ triggerDoneClosed
    /\ hasFire => firePc = "exited"

\* C2: once the caller has closed the event sink, the event listener
\* eventually exits, done and triggerDone are closed, and the async-fire
\* listener, if one was launched, eventually exits.
C2_StopPropagates == sinkClosed ~> ListenersGone

C2_Witness == sinkClosed /\ hasFire /\ ListenersGone

\* C3: once the device has been removed, its streaming loops eventually exit,
\* and no loop starts a new connect-and-stream cycle after its retry delay.
C3_RemovedLoopExits ==
    /\ (~inSystem) ~> (\A w \in Workers : streamPc[w] \in {"idle", "panic"})
    /\ [][~inSystem =>
            \A w \in Workers : ~(Sleeping(w) /\ streamPc'[w] = "connect")]_vars

Holding(w) == streamPc[w] \in {"scan", "send"}

\* C4: every connection Connect handed out is released exactly once when its
\* cycle ends, and a failed Connect releases nothing: the releases and the
\* connections still held by a running cycle add up to the acquisitions.
C4_ReleasedExactlyOnce ==
    released + Cardinality({w \in Workers : Holding(w)}) = acquired

C4_Witness ==
    \E w \in Workers :
        /\ streamPc[w] = "sleepReadErr"
        /\ acquired = MaxAcquire
        /\ released = acquired

\* the worker that handled the last token is sending an Event for it
Yields(type, source) ==
    /\ lastW \in Workers
    /\ streamPc[lastW] = "send"
    /\ ev[lastW].Cmd.Type = type
    /\ ev[lastW].Source = source
    /\ ev[lastW].Orig = lastTok

\* C5: the frame "#OUTPUT,Z,1,I\r\n" for a zone Z of the device yields an
\* Event with a zone set-level command for zone Z and intensity I.
C5_ZoneUpdateEvent ==
    \A z \in ZoneTable : \A i \in Intensities :
        lastTok = OutputFrame("#", z, <<"1">>, FormatFixed2(i)) =>
            /\ Yields(CTZoneSetLevel, ZoneRef(z))
            /\ ev[lastW].Cmd.Value = ZoneValue(z, i)

\* C6: parsing the wire text buildCommand rendered for SetZoneLevel(Z, I)
\* yields the zone set-level command for the same zone and intensity.
C6_ZoneRoundTrip ==
    (trPc = "parsed" /\ trIntent.CommandType = CTZoneSetLevel) =>
        /\ trRes.cmd = buildCommand(trIntent).cmd
        /\ trRes.source = trIntent.Zone

\* a DEVICE frame with action code 3 or 4 for a known child device and a
\* button that device does not have
IsUnknownButton(tok) ==
    LET d == FindSubmatch(tok, WireSentinels, DEVICE)
    IN  /\ d # <<>>
        /\ d[1] \in DeviceTable
        /\ d[3] \in {<<"3">>, <<"4">>}
        /\ d[2] \notin ButtonTable(d[1])

\* the worker that handled the last token dropped it and scans on
SkippedAndScanning ==
    /\ lastRes = Dropped
    /\ ~crashed
    /\ lastW \in Workers
    /\ streamPc[lastW] = "scan"

\* C7: a DEVICE frame with code 3 or 4 for a known device and an unknown
\* button is dropped: no Event, no crash, and the loop scans on.
C7_UnknownButtonDropped == IsUnknownButton(lastTok) => SkippedAndScanning

\* C8: a frame naming an unknown child device or an unknown zone yields no
\* Event and no error, and the streaming cycle goes on scanning.
C8_UnresolvedSkipped == IsUnresolved(lastTok) => SkippedAndScanning

\* a cycle that skipped an unresolved reference is sending the Event of a
\* later frame
C8_Witness ==
    \E w \in Workers :
        /\ sawUnresolved[w]
        /\ lastW = w
        /\ ~IsUnresolved(lastTok)
        /\ Yields(CTDevicePressButton, ButtonRef(<<"9">>, <<"3">>))

\* C9: "#DEVICE,D,B,3\r\n" for a button B of a child device D yields a
\* button-press Event for B, and with code 4 a button-release Event for B.
C9_ButtonEvents ==
    \A d \in DeviceTable : \A b \in ButtonTable(d) :
        /\ lastTok = DeviceFrame("#", d, b, <<"3">>) =>
                Yields(CTDevicePressButton, ButtonRef(d, b))
        /\ lastTok = DeviceFrame("#", d, b, <<"4">>) =>
                Yields(CTDeviceReleaseButton, ButtonRef(d, b))

C9_Witness ==
    /\ lastTok = DeviceFrame("#", <<"9">>, <<"3">>, <<"3">>)
    /\ Yields(CTDevicePressButton, ButtonRef(<<"9">>, <<"3">>))

\* C10 as stated: no event and no fire signal received while enabled is
\* false leads to an action execution.
C10_NoExecutionIfReceivedDisabled ==
    /\ evPc = "exec" => evRecvEnabled
    /\ firePc = "exec" => fireRecvEnabled

\* C10: SetEnabled ends no listener and closes no channel; an action
\* execution is started only for an event or fire signal for which the
\* listener read enabled as true after receiving it; and an event or true
\* fire signal checked while enabled is true goes on to the trigger
\* predicate, respectively the action, with no new StartConsumingEvents.
C10_EnabledGatesExecution ==
    /\ [](evPc \in {"process", "exec"} => evSawEnabled)
    /\ [](firePc = "exec" => fireSawEnabled)
    /\ [][enabled' # enabled =>
            UNCHANGED <<started, evPc, firePc, doneNil, sinkClosed,
                        doneClosed, triggerDoneClosed>>]_vars
    /\ [][(evPc = "check" /\ evPc' # "check" /\ enabled /\ tpe) =>
            evPc' = "process"]_vars
    /\ [][(evPc = "process" /\ EvProcessEvent(TRUE)) => evPc' = "exec"]_vars
    /\ [][(firePc = "check" /\ firePc' # "check" /\ enabled /\ fireVal) =>
            firePc' = "exec"]_vars

\* disabled and enabled again after the start, and executing the action for
\* an event received since
C10_Witness ==
    /\ everDisabled
    /\ enabled
    /\ evRecvEnabled
    /\ evSawEnabled
    /\ evPc = "exec"

\* C11: when Action.Execute returns an error, the listener that ran it goes
\* back to waiting for its next event or fire signal, the enabled flag and
\* the other listener are left as they were and no channel is closed; and
\* after an error an event for which the trigger's predicate returns true,
\* or a true fire signal checked while enabled, still starts an execution.
C11_ErrorContained ==
    /\ [][\A err \in BOOLEAN : EvExecuteDone(err) =>
            /\ evPc' = "recv"
            /\ UNCHANGED <<enabled, firePc, doneNil, sinkClosed, doneClosed,
                           triggerDoneClosed>>]_vars
    /\ [][\A err \in BOOLEAN : FireExecuteDone(err) =>
            /\ firePc' = "select"
            /\ UNCHANGED <<enabled, evPc, doneNil, sinkClosed, doneClosed,
                           triggerDoneClosed>>]_vars
    /\ []((evErr /\ ~sinkClosed) => evPc \notin {"exited", "none"})
    /\ []((fireErr /\ ~doneClosed) => firePc \notin {"exited", "none"})
    /\ [][(evErr /\ EvProcessEvent(TRUE)) => evPc' = "exec"]_vars
    /\ [][(fireErr /\ firePc = "check" /\ firePc' # "check"
                /\ enabled /\ fireVal) => firePc' = "exec"]_vars

\* both listeners have had an execution fail, and each is executing the
\* action again for a later event, respectively fire signal
C11_Witness ==
    /\ evErr
    /\ fireErr
    /\ evPc = "exec"
    /\ firePc = "exec"
    /\ ~sinkClosed

\* a startStreaming goroutine of the device that is running its
\* connect-and-stream cycle
Active(w) == streamPc[w] \notin {"idle", "panic"}

\* C12: whatever calls of StartProducingEvents were made, at most one
\* streaming loop of the device is active.
C12_OneStreamingLoop == Cardinality({w \in Workers : Active(w)}) <= 1

\* C13: a consumer that does not receive cannot stall the streaming loop for
\* ever: a loop delivering an Event gets past the delivery, the Event taken
\* or abandoned, and goes back to reading the wire.
C13_DeliveryBounded ==
    \A w \in Workers :
        (streamPc[w] = "send" /\ ~crashed) ~> (streamPc[w] # "send" \/ crashed)

\* the wire code of a button command type
ButtonCode(ct) == IF ct = CTDevicePressButton THEN <<"3">> ELSE <<"4">>

\* C20: rendering PressButton (ReleaseButton) for child device D and button
\* B gives exactly "#DEVICE,D,B,3\r\n" (",4\r\n") with the local ids of D and
\* B, and parsing the rendered text on the owning device yields the same
\* command type for the same device and button.
C20_ButtonRoundTrip ==
    (/\ trPc \in {"rendered", "parsed"}
     /\ trIntent.CommandType \in {CTDevicePressButton, CTDeviceReleaseButton})
    => /\ trText = DeviceFrame("#", trIntent.SourceDevice,
                        ButtonLocalID(trIntent.Button),
                        ButtonCode(trIntent.CommandType))
       /\ trPc = "parsed" =>
            /\ trRes.cmd.Type = trIntent.CommandType
            /\ trRes.source = trIntent.Button

\* C17: a cycle that ends because Connect failed releases nothing, one that
\* ends because a read failed releases its connection; either way the loop
\* only sleeps, the one step out of the sleep starts a new cycle with a new
\* Connect, and that step eventually comes while the process lives.  The
\* failure stays in the loop: StartProducingEvents has returned long before.
C17_RetriesAfterFailure ==
    /\ \A w \in Workers :
            CycleFailed(w) ~> (streamPc[w] = "connect" \/ crashed)
    /\ [][\A w \in Workers : ConnectFail(w) =>
            /\ streamPc'[w] = "sleepConnectErr"
            /\ UNCHANGED <<acquired, released, evpGen>>]_vars
    /\ [][\A w \in Workers : ScanEnd(w, TRUE) =>
            /\ streamPc'[w] = "sleepReadErr"
            /\ released' = released + 1
            /\ UNCHANGED <<acquired, evpGen>>]_vars
    /\ [][\A w \in Workers :
            (Sleeping(w) /\ streamPc'[w] # streamPc[w]) =>
                streamPc'[w] = "connect"]_vars

\* a loop that has held and released a connection is, after the sleep, at
\* the Connect that follows a failed cycle
C17_Witness ==
    /\ evpGen = 1
    /\ acquired = 1
    /\ released = 1
    /\ retried[1]
    /\ streamPc[1] = "connect"
    /\ ~crashed

AuthOrder == <<"readLogin", "writeLogin", "readPassword", "writePassword">>

\* C18: Authenticate does its steps in the order read to the login prompt's
\* delimiter, write login and CRLF, read to the password prompt's delimiter,
\* write password and CRLF; the password is written only after the login
\* was written and the second prompt read; after the first I/O error no
\* further step is done; and it returns success exactly when all four steps
\* completed.
C18_HandshakeOrder ==
    /\ [](authLog = SubSeq(AuthOrder, 1, Len(authLog)))
    /\ [](authOut = SubSeq(<<authInfo.Login \o CRLF,
                              authInfo.Password \o CRLF>>, 1, Len(authOut)))
    /\ [](Len(authOut) = Len(authLog) \div 2)
    /\ [](authPc = "ok" <=> authLog = AuthOrder)
    /\ [](authPc \notin {"idle", "ok", "failed"} =>
            authPc = AuthOrder[Len(authLog) + 1])
    /\ [][(authPc \in {"ok", "failed"}) => UNCHANGED authVars]_vars

\* the handshake succeeded: both credentials were written, in order, and
\* everything the peer wrote was read
C18_Witness ==
    /\ authPc = "ok"
    /\ authIn = <<>>
    /\ authOut = <<authInfo.Login \o CRLF, authInfo.Password \o CRLF>>
    /\ authInfo.Login # authInfo.Password

\* C14: a complete frame F that arrives in reads of any sizes gives exactly
\* one token, equal to F: no token is made before all of F was read, the
\* token made is F, and once F was read nothing of it is left buffered.
C14_FragmentationInvariance ==
    script \in FrameScripts =>
        \A w \in Workers :
            /\ ~crashed
            /\ lastW = w => (lastTok = script /\ wire[w] = <<>>)
            /\ (streamPc[w] \in {"scan", "send"} /\ wire[w] = <<>>
                    /\ acquired > 0) => buf[w] = <<>>

\* the same for the frames made of ASCII characters only, which holds
AsciiFramesTokenized ==
    (script \in FrameScripts /\ Runes(script) = [i \in 1..Len(script) |->
                                                    <<script[i]>>])
    => \A w \in Workers :
            /\ ~crashed
            /\ lastW = w => (lastTok = script /\ wire[w] = <<>>)
            /\ (streamPc[w] \in {"scan", "send"} /\ wire[w] = <<>>
                    /\ acquired > 0) => buf[w] = <<>>

\* the bytes of the script the scanner of w has advanced past
Consumed(w) == Len(script) - Len(buf[w]) - Len(wire[w])

\* C15: of several complete frames on one connection, read in pieces of any
\* sizes, each token is one whole frame of the stream, it starts where the
\* token before it ended (none skipped, repeated or out of order), and the
\* Event the loop sends carries that token, before the next token is made.
C15_WireOrder ==
    /\ [](script \in MultiFrameScripts =>
            \A w \in Workers : lastW = w =>
                /\ Consumed(w) >= Len(lastTok)
                /\ lastTok = SubSeq(script, Consumed(w) - Len(lastTok) + 1,
                                    Consumed(w))
                /\ IndexFrom(lastTok, LF, 1) = Len(lastTok)
                /\ Consumed(w) = Len(lastTok)
                        \/ script[Consumed(w) - Len(lastTok)] = LF
                /\ streamPc[w] = "send"
                /\ ev[w].Orig = lastTok)
    /\ [][\A w \in Workers :
            (script \in MultiFrameScripts /\ lastW' = w
                /\ (ScanBuffered(w) \/ ScanPartial(w)))
            => Len(script) - Len(buf'[w]) - Len(wire'[w]) - Len(lastTok')
                    = Consumed(w)]_vars

\* three frames came in one read: the loop is sending the Event of the
\* second, the third is still in the scanner's buffer
C15_Witness ==
    /\ script = PressFrame \o ReleaseFrame \o ZoneFrame
    /\ lastTok = ReleaseFrame
    /\ Yields(CTDeviceReleaseButton, ButtonRef(<<"9">>, <<"3">>))
    /\ buf[1] = ZoneFrame
    /\ wire[1] = <<>>

\* the text holds a frame of the wire grammar: a sentinel, OUTPUT or DEVICE,
\* three comma-separated fields, CRLF
HoldsFrame(tok) ==
    \/ FindSubmatch(tok, {"#", "~", "?", "|"}, OUTPUT) # <<>>
    \/ FindSubmatch(tok, {"#", "~", "?", "|"}, DEVICE) # <<>>

\* a zone set-level command for a zone of the device, or a button command
\* for a button of one of its child devices
ResolvedCommand(res) ==
    \/ /\ res.cmd.Type = CTZoneSetLevel
       /\ \E z \in ZoneTable : res.source = ZoneRef(z)
    \/ /\ res.cmd.Type \in {CTDevicePressButton, CTDeviceReleaseButton}
       /\ \E d \in DeviceTable : \E b \in ButtonTable(d) :
                res.source = ButtonRef(d, b)

\* C16: the loop sends an Event only for a token that holds a frame and that
\* parseCommandString classified into a zone or button command with its
\* references resolved, and the Event carries that command and token; bytes
\* that form no frame (garbage, "#PING\r\n", unterminated fragments) never
\* lead to a send.
C16_OnlyClassifiedFrames ==
    \A w \in Workers :
        /\ streamPc[w] = "send" =>
                /\ lastW = w
                /\ HoldsFrame(lastTok)
                /\ ResolvedCommand(lastRes)
                /\ ev[w] = NewEvent(lastRes.cmd, lastTok, lastRes.source)
        /\ script \in NoFrameScripts => streamPc[w] # "send"
        /\ streamPc[w] # "send" => ev[w] = NoEvent

\* "#PING\r\n" came out of the scanner as a token and was dropped; the frame
\* behind it is still to be scanned
C16_Witness ==
    /\ script = PingLine \o PressFrame
    /\ lastW = 1
    /\ lastTok = PingLine
    /\ lastRes = Dropped
    /\ streamPc[1] = "scan"
    /\ buf[1] = PressFrame

\* the scanner of w made the token f, nothing else, and the loop is sending
\* the Event of f
EmitsExactly(w, f) ==
    /\ ~crashed
    /\ lastW = w =>
            /\ lastTok = f
            /\ streamPc[w] = "send"
            /\ ev[w].Orig = f
    /\ (streamPc[w] \in {"scan", "send"} /\ wire[w] = <<>> /\ acquired > 0)
            => buf[w] = <<>>

\* C19: unrecognized bytes without a CRLF in front of a complete valid frame
\* F are skipped with no token made for them, the token made is exactly F,
\* and the Event for F is sent.
C19_LeadingBytesSkipped ==
    \A g \in Garbage : \A f \in {PressFrame, ZoneFrame} :
        script = g \o f => \A w \in Workers : EmitsExactly(w, f)

\* the same for ASCII leading bytes in which no sentinel is followed by a
\* character of the split expression's second class, which holds
PlainLeadingBytesSkipped ==
    \A g \in {<<"x", "y", "z">>, Prompt, <<"3", "CR">>} :
        \A f \in {PressFrame, ZoneFrame} :
            script = g \o f => \A w \in Workers : EmitsExactly(w, f)

\* C21 as stated: the event listener starts an execution only for an event
\* received while enabled was true, for a trigger that declared event-driven
\* evaluation, after the predicate returned true, and the predicate is not
\* invoked otherwise; the fire listener starts one only for a true signal
\* received while enabled was true.
C21_StartedOnlyIfReceivedEnabled ==
    /\ [](evPc \in {"process", "exec"} => (evRecvEnabled /\ tpe))
    /\ [][(evPc # "exec" /\ evPc' = "exec") => EvProcessEvent(TRUE)]_vars
    /\ [](firePc = "exec" => (fireRecvEnabled /\ fireVal))

\* C21: the event listener starts an execution only by a return of true from
\* the trigger's predicate, which it invokes only for an event for which it
\* read enabled as true after the receive and when the trigger declared
\* event-driven evaluation; the fire listener starts one only for a signal
\* whose value is true and for which it read enabled as true after the
\* receive.
C21_StartedOnlyIfCheckedEnabled ==
    /\ [](evPc \in {"process", "exec"} => (evSawEnabled /\ tpe))
    /\ [][(evPc # "process" /\ evPc' = "process") =>
            (evPc = "check" /\ enabled /\ tpe)]_vars
    /\ [][(evPc # "exec" /\ evPc' = "exec") =>
            (evPc = "process" /\ EvProcessEvent(TRUE))]_vars
    /\ [](firePc = "exec" => (fireSawEnabled /\ fireVal))
    /\ [][(firePc # "exec" /\ firePc' = "exec") =>
            (firePc = "check" /\ enabled /\ fireVal)]_vars

\* both listeners are executing the action, each for an input it received
\* while the recipe was disabled and checked after SetEnabled(true)
C21_Witness ==
    /\ evPc = "exec"
    /\ ~evRecvEnabled
    /\ evSawEnabled
    /\ firePc = "exec"
    /\ ~fireRecvEnabled
    /\ fireSawEnabled
    /\ fireVal

\* an OUTPUT frame for a zone of the device with an opCode other than 1, or a
\* DEVICE frame for a child device with an action code other than 3 and 4
IsUnknownOp(tok) ==
    LET z == FindSubmatch(tok, WireSentinels, OUTPUT)
        d == FindSubmatch(tok, WireSentinels, DEVICE)
    IN  \/ z # <<>> /\ z[1] \in ZoneTable /\ z[2] # <<"1">>
        \/ d # <<>> /\ d[1] \in DeviceTable /\ d[3] \notin {<<"3">>, <<"4">>}

\* the command type the switch on the frame's opCode or action code gives
OpClass(tok) ==
    LET z == FindSubmatch(tok, WireSentinels, OUTPUT)
        d == FindSubmatch(tok, WireSentinels, DEVICE)
    IN  IF z # <<>> THEN ZoneCommandType(z[2]) ELSE DeviceCommandType(d[3])

\* C22: an OUTPUT frame for a known zone with an opCode other than 1, and a
\* DEVICE frame for a known child device with a code other than 3 and 4, are
\* classified as unknown: parseCommandString returns no command for them, no
\* Event is sent, nothing panics, the cycle stays in its scan loop, and the
\* frame behind such a frame is the next token and has its Event sent.
C22_UnknownOpSkipped ==
    \A w \in Workers :
        /\ (lastW = w /\ IsUnknownOp(lastTok)) =>
                /\ OpClass(lastTok) = CTUnknown
                /\ lastRes.cmd = NilCmd
                /\ ~lastRes.panic
                /\ ~crashed
                /\ streamPc[w] = "scan"
                /\ ev[w] = NoEvent
        /\ \A u \in UnknownOpFrames :
                /\ script = u => streamPc[w] # "send"
                /\ (script = u \o PressFrame /\ lastW = w) =>
                        \/ lastTok = u /\ Consumed(w) = Len(u)
                        \/ /\ lastTok = PressFrame
                           /\ Consumed(w) = Len(script)
                           /\ streamPc[w] = "send"
                           /\ ev[w].Orig = PressFrame

\* the cycle dropped a zone frame with opCode 2 and is sending the Event of
\* the button frame that came behind it
C22_Witness ==
    /\ script = OutputFrame("~", <<"1", "2">>, <<"2">>, FormatFixed2(5500))
                    \o PressFrame
    /\ lastTok = PressFrame
    /\ Yields(CTDevicePressButton, ButtonRef(<<"9">>, <<"3">>))
    /\ wire[1] = <<>>
    /\ buf[1] = <<>>

\* x and y are the same device: the same address, and both without a hub or
\* both under a hub with the same ID
SameDevice(x, y) ==
    /\ x.Address = y.Address
    /\ \/ x.Hub = NoHub /\ y.Hub = NoHub
       \/ x.Hub # NoHub /\ y.Hub # NoHub /\ x.Hub = y.Hub

\* C23: IsDupeDevice(x) returns true exactly when some registered device is
\* the same device as x, the device it returns with true is such a device,
\* and every iteration order of the device table gives the same result.
C23_DupeExact ==
    dupePc = "returned" =>
        /\ dupeRes.dupe <=>
                \E id \in DOMAIN devices : SameDevice(dupeX, devices[id])
        /\ dupeRes.dupe =>
                /\ dupeRes.dev \in DOMAIN devices
                /\ SameDevice(dupeX, devices[dupeRes.dev])
        /\ \A order \in Orders(DOMAIN devices) :
                RangeDevices(dupeX, devices, order).dupe = dupeRes.dupe

\* the same when no two registered devices have x's address, which holds
SingleAddressDupeExact ==
    (dupePc = "returned"
        /\ Cardinality({id \in DOMAIN devices :
                            devices[id].Address = dupeX.Address}) <= 1) =>
        /\ dupeRes.dupe <=>
                \E id \in DOMAIN devices : SameDevice(dupeX, devices[id])
        /\ dupeRes.dupe =>
                /\ dupeRes.dev \in DOMAIN devices
                /\ SameDevice(dupeX, devices[dupeRes.dev])

\* C24: once the sink is closed and the event listener has exited, the
\* async-fire listener starts no execution of the action.
C24_NoExecutionAfterStop ==
    [][(sinkClosed /\ evPc = "exited") =>
            ~(firePc # "exec" /\ firePc' = "exec")]_vars

\* C25: a send of an Event on the sink completes sooner or later, the event
\* listener taking the Event whatever enabled is and whether or not the
\* trigger declared event-driven evaluation; an Event it takes while the
\* recipe is disabled or the trigger did not declare event-driven evaluation
\* is discarded, the listener going back to its receive with nothing else
\* changed.
C25_SendCompletes ==
    /\ sending ~> ~sending
    /\ [][(sending /\ ~sending') => (evPc = "recv" /\ evPc' = "check")]_vars
    /\ [][(evPc = "check" /\ evPc' # "check" /\ ~(enabled /\ tpe)) =>
            /\ evPc' = "recv"
            /\ UNCHANGED <<enabled, firePc, doneNil, sinkClosed, doneClosed,
                           triggerDoneClosed>>]_vars

\* the listener has taken an Event sent while the recipe was disabled, for a
\* trigger that declared no event-driven evaluation
C25_Witness ==
    /\ everDisabled
    /\ ~enabled
    /\ ~tpe
    /\ ~sending
    /\ ~evRecvEnabled
    /\ evPc = "check"

====
